---- MODULE Spec2Model ----
(***************************************************************************)
(* A model of the user agent parser of src/ua.go: Parser.Parse takes a     *)
(* token list and two scratch buffers from the parser's pools, scans the   *)
(* user agent byte by byte into key/value tokens, removes the first URL    *)
(* token, runs the OS rules and the browser/bot rules over the tokens,     *)
(* corrects the form-factor and bot flags and returns the result.          *)
(*                                                                         *)
(* A string is a sequence of bytes and a byte is a one-character string.   *)
(* Indices and slices keep Go's conventions (0-based, s[lo:hi]); an index  *)
(* or slice out of range is a run-time panic of the call, recorded in the  *)
(* calling thread's panic flag.                                            *)
(***************************************************************************)
EXTENDS Integers, Sequences, FiniteSets, TLC

\* The named constants of the package (src/ua.go:28-60), as byte sequences.
Windows == <<"W", "i", "n", "d", "o", "w", "s">>
WindowsPhone == <<"W", "i", "n", "d", "o", "w", "s", " ", "P", "h", "o", "n", "e">>
Android == <<"A", "n", "d", "r", "o", "i", "d">>
MacOS == <<"m", "a", "c", "O", "S">>
IOS == <<"i", "O", "S">>
Linux == <<"L", "i", "n", "u", "x">>
FreeBSD == <<"F", "r", "e", "e", "B", "S", "D">>
ChromeOS == <<"C", "h", "r", "o", "m", "e", "O", "S">>
BlackBerry == <<"B", "l", "a", "c", "k", "B", "e", "r", "r", "y">>
Opera == <<"O", "p", "e", "r", "a">>
OperaMini == <<"O", "p", "e", "r", "a", " ", "M", "i", "n", "i">>
OperaTouch == <<"O", "p", "e", "r", "a", " ", "T", "o", "u", "c", "h">>
Chrome == <<"C", "h", "r", "o", "m", "e">>
HeadlessChrome == <<"H", "e", "a", "d", "l", "e", "s", "s", " ", "C", "h", "r", "o", "m", "e">>
Firefox == <<"F", "i", "r", "e", "f", "o", "x">>
InternetExplorer == <<"I", "n", "t", "e", "r", "n", "e", "t", " ", "E", "x", "p", "l", "o", "r", "e", "r">>
Safari == <<"S", "a", "f", "a", "r", "i">>
Edge == <<"E", "d", "g", "e">>
Vivaldi == <<"V", "i", "v", "a", "l", "d", "i">>
GoogleAdsBot == <<"G", "o", "o", "g", "l", "e", " ", "A", "d", "s", " ", "B", "o", "t">>
Googlebot == <<"G", "o", "o", "g", "l", "e", "b", "o", "t">>
Twitterbot == <<"T", "w", "i", "t", "t", "e", "r", "b", "o", "t">>
FacebookExternalHit == <<"f", "a", "c", "e", "b", "o", "o", "k", "e", "x", "t", "e", "r", "n", "a", "l", "h", "i", "t">>
Applebot == <<"A", "p", "p", "l", "e", "b", "o", "t">>
Bingbot == <<"B", "i", "n", "g", "b", "o", "t">>
FacebookApp == <<"F", "a", "c", "e", "b", "o", "o", "k", " ", "A", "p", "p">>
InstagramApp == <<"I", "n", "s", "t", "a", "g", "r", "a", "m", " ", "A", "p", "p">>
TiktokApp == <<"T", "i", "k", "T", "o", "k", " ", "A", "p", "p">>

\* The string literals the code compares keys and buffers with.
Lit ==
  [ http |-> <<"h", "t", "t", "p">>,
    https |-> <<"h", "t", "t", "p", "s">>,
    httpColon |-> <<"h", "t", "t", "p", ":">>,
    httpsColon |-> <<"h", "t", "t", "p", "s", ":">>,
    httpScheme |-> <<"h", "t", "t", "p", ":", "/", "/">>,
    httpsScheme |-> <<"h", "t", "t", "p", "s", ":", "/", "/">>,
    plus |-> <<"+">>,
    space |-> <<" ">>,
    tablet |-> <<"t", "a", "b", "l", "e", "t">>,
    bot |-> <<"b", "o", "t">>,
    OS |-> <<"O", "S">>,
    Build |-> <<"B", "u", "i", "l", "d">>,
    iPhone |-> <<"i", "P", "h", "o", "n", "e">>,
    iPad |-> <<"i", "P", "a", "d">>,
    WindowsNT |-> <<"W", "i", "n", "d", "o", "w", "s", " ", "N", "T">>,
    WindowsPhoneOS |-> <<"W", "i", "n", "d", "o", "w", "s", " ", "P", "h", "o", "n", "e", " ", "O", "S">>,
    Macintosh |-> <<"M", "a", "c", "i", "n", "t", "o", "s", "h">>,
    CrOS |-> <<"C", "r", "O", "S">>,
    MSIE |-> <<"M", "S", "I", "E">>,
    CrOSx86 |-> <<"C", "r", "O", "S", " ", "x", "8", "6", "_", "6", "4">>,
    CrOSaarch64 |-> <<"C", "r", "O", "S", " ", "a", "a", "r", "c", "h", "6", "4">>,
    CrOSarmv7l |-> <<"C", "r", "O", "S", " ", "a", "r", "m", "v", "7", "l">>,
    GoogleProber |-> <<"G", "o", "o", "g", "l", "e", "P", "r", "o", "b", "e", "r">>,
    GoogleProducer |-> <<"G", "o", "o", "g", "l", "e", "P", "r", "o", "d", "u", "c", "e", "r">>,
    Mobile |-> <<"M", "o", "b", "i", "l", "e">>,
    MobileSafari |-> <<"M", "o", "b", "i", "l", "e", " ", "S", "a", "f", "a", "r", "i">>,
    Tablet |-> <<"T", "a", "b", "l", "e", "t">>,
    OPR |-> <<"O", "P", "R">>,
    OPT |-> <<"O", "P", "T">>,
    OPiOS |-> <<"O", "P", "i", "O", "S">>,
    CriOS |-> <<"C", "r", "i", "O", "S">>,
    FxiOS |-> <<"F", "x", "i", "O", "S">>,
    EdgiOS |-> <<"E", "d", "g", "i", "O", "S">>,
    Edg |-> <<"E", "d", "g">>,
    EdgA |-> <<"E", "d", "g", "A">>,
    bingbot |-> <<"b", "i", "n", "g", "b", "o", "t">>,
    YandexBot |-> <<"Y", "a", "n", "d", "e", "x", "B", "o", "t">>,
    SamsungBrowser |-> <<"S", "a", "m", "s", "u", "n", "g", "B", "r", "o", "w", "s", "e", "r">>,
    SamsungBrowserName |-> <<"S", "a", "m", "s", "u", "n", "g", " ", "B", "r", "o", "w", "s", "e", "r">>,
    HeadlessChromeKey |-> <<"H", "e", "a", "d", "l", "e", "s", "s", "C", "h", "r", "o", "m", "e">>,
    AdsBotGoogleMobile |-> <<"A", "d", "s", "B", "o", "t", "-", "G", "o", "o", "g", "l", "e", "-", "M", "o", "b", "i", "l", "e">>,
    MediapartnersGoogle |-> <<"M", "e", "d", "i", "a", "p", "a", "r", "t", "n", "e", "r", "s", "-", "G", "o", "o", "g", "l", "e">>,
    AdsBotGoogle |-> <<"A", "d", "s", "B", "o", "t", "-", "G", "o", "o", "g", "l", "e">>,
    YahooAdMonitoring |-> <<"Y", "a", "h", "o", "o", " ", "A", "d", " ", "m", "o", "n", "i", "t", "o", "r", "i", "n", "g">>,
    XiaoMi |-> <<"X", "i", "a", "o", "M", "i">>,
    MiuiBrowser |-> <<"M", "i", "u", "i", "B", "r", "o", "w", "s", "e", "r">>,
    MiuiBrowserSlash |-> <<"M", "i", "u", "i", "B", "r", "o", "w", "s", "e", "r", "/">>,
    MiuiBrowserName |-> <<"M", "i", "u", "i", " ", "B", "r", "o", "w", "s", "e", "r">>,
    FBAN |-> <<"F", "B", "A", "N">>,
    FB_IAB |-> <<"F", "B", "_", "I", "A", "B">>,
    FBAV |-> <<"F", "B", "A", "V">>,
    Instagram |-> <<"I", "n", "s", "t", "a", "g", "r", "a", "m">>,
    BytedanceWebview |-> <<"B", "y", "t", "e", "d", "a", "n", "c", "e", "W", "e", "b", "v", "i", "e", "w">>,
    app_version |-> <<"a", "p", "p", "_", "v", "e", "r", "s", "i", "o", "n">>,
    HuaweiBrowser |-> <<"H", "u", "a", "w", "e", "i", "B", "r", "o", "w", "s", "e", "r">>,
    HuaweiBrowserName |-> <<"H", "u", "a", "w", "e", "i", " ", "B", "r", "o", "w", "s", "e", "r">>,
    NetFront |-> <<"N", "e", "t", "F", "r", "o", "n", "t">>,
    BraveChrome |-> <<"B", "r", "a", "v", "e", " ", "C", "h", "r", "o", "m", "e">>,
    Version |-> <<"V", "e", "r", "s", "i", "o", "n">>,
    AndroidBrowser |-> <<"A", "n", "d", "r", "o", "i", "d", " ", "b", "r", "o", "w", "s", "e", "r">>,
    Mozilla |-> <<"M", "o", "z", "i", "l", "l", "a">>,
    AppleWebKit |-> <<"A", "p", "p", "l", "e", "W", "e", "b", "K", "i", "t">>,
    GSA |-> <<"G", "S", "A">>,
    Presto |-> <<"P", "r", "e", "s", "t", "o">>,
    KHTML |-> <<"K", "H", "T", "M", "L", ",", " ", "l", "i", "k", "e", " ", "G", "e", "c", "k", "o">>,
    U |-> <<"U">>,
    compatible |-> <<"c", "o", "m", "p", "a", "t", "i", "b", "l", "e">>,
    WOW64 |-> <<"W", "O", "W", "6", "4">>,
    en |-> <<"e", "n">>,
    enUS |-> <<"e", "n", "-", "u", "s">>,
    enGB |-> <<"e", "n", "-", "g", "b">>,
    ruRU |-> <<"r", "u", "-", "r", "u">>,
    Browser |-> <<"B", "r", "o", "w", "s", "e", "r">> ]

(***************************************************************************)
(* The operations of packages bytes and strings that the parser uses.      *)
(***************************************************************************)
SetMax(S) == CHOOSE x \in S : \A y \in S : y <= x
SetMin(S) == CHOOSE x \in S : \A y \in S : x <= y

\* s[lo:hi], and whether Go accepts the slice expression
Slice(s, lo, hi) == SubSeq(s, lo + 1, hi)
SliceOK(s, lo, hi) == 0 <= lo /\ lo <= hi /\ hi <= Len(s)
\* whether s[k] is in range
IndexOK(s, k) == 0 <= k /\ k < Len(s)

HasPrefix(s, p) == Len(s) >= Len(p) /\ SubSeq(s, 1, Len(p)) = p
HasSuffix(s, p) == Len(s) >= Len(p) /\ SubSeq(s, Len(s) - Len(p) + 1, Len(s)) = p
Contains(s, sub) == \E k \in 0..(Len(s) - Len(sub)) : SubSeq(s, k + 1, k + Len(sub)) = sub
\* the 0-based index of the last occurrence of sep in s, or -1
LastIndex(s, sep) ==
    LET K == {k \in 0..(Len(s) - Len(sep)) : SubSeq(s, k + 1, k + Len(sep)) = sep}
    IN  IF K = {} THEN -1 ELSE SetMax(K)
IsSpace(c) == c \in {" ", "\t", "\n", "\r"}
TrimSpace(s) ==
    LET N == {k \in 1..Len(s) : ~IsSpace(s[k])}
    IN  IF N = {} THEN <<>> ELSE SubSeq(s, SetMin(N), SetMax(N))
TrimPrefix(s, p) == IF HasPrefix(s, p) THEN SubSeq(s, Len(p) + 1, Len(s)) ELSE s
TrimSuffix(s, p) == IF HasSuffix(s, p) THEN SubSeq(s, 1, Len(s) - Len(p)) ELSE s

UpperToLower ==
    [A |-> "a", B |-> "b", C |-> "c", D |-> "d", E |-> "e", F |-> "f", G |-> "g",
     H |-> "h", I |-> "i", J |-> "j", K |-> "k", L |-> "l", M |-> "m", N |-> "n",
     O |-> "o", P |-> "p", Q |-> "q", R |-> "r", S |-> "s", T |-> "t", U |-> "u",
     V |-> "v", W |-> "w", X |-> "x", Y |-> "y", Z |-> "z"]
ToLower(s) ==
    IF s = <<>> THEN <<>>
    ELSE [k \in 1..Len(s) |-> IF s[k] \in DOMAIN UpperToLower THEN UpperToLower[s[k]] ELSE s[k]]

Digits == {"0", "1", "2", "3", "4", "5", "6", "7", "8", "9"}

\* rxMacOSVer.FindString: the leftmost longest run of '_', digits and '.';
\* findVersion replaces every '_' of it by '.'
VerBytes == Digits \cup {"_", "."}
findVersion(s) ==
    LET K == {k \in 1..Len(s) : s[k] \in VerBytes}
    IN  IF K = {} THEN <<>>
        ELSE LET lo  == SetMin(K)
                 E   == {k \in lo..Len(s) : \A m \in lo..k : s[m] \in VerBytes}
                 hi  == SetMax(E)
                 ver == SubSeq(s, lo, hi)
             IN  [k \in 1..Len(ver) |-> IF ver[k] = "_" THEN "." ELSE ver[k]]

(***************************************************************************)
(* The tokenizer: Parser.parse and its helpers.                            *)
(***************************************************************************)
\* ignore returns true if the token should be ignored
ignore(s) ==
    s \in {Lit.KHTML, Lit.U, Lit.compatible, Lit.Mozilla, Lit.WOW64,
           Lit.en, Lit.enUS, Lit.enGB, Lit.ruRU, Lit.Browser}

\* checkVer splits a key that carries its version after the last space.
\* nil and the empty string are the same value once properties.add has stored them.
checkVer(s) ==
    LET i   == LastIndex(s, Lit.space)
        pre == Slice(s, 0, i)
    IN  IF i = -1 THEN [key |-> s, ver |-> <<>>, panic |-> FALSE]
        ELSE IF pre \in {Linux, Lit.WindowsNT, Lit.WindowsPhoneOS, Lit.MSIE, Android}
        THEN [key |-> pre, ver |-> Slice(s, i + 1, Len(s)), panic |-> FALSE]
        ELSE IF pre \in {Lit.CrOSx86, Lit.CrOSaarch64, Lit.CrOSarmv7l}
        THEN LET j == LastIndex(pre, Lit.space)
             IN  IF SliceOK(s, 0, j) /\ SliceOK(s, j + 1, i)
                 THEN [key |-> Slice(s, 0, j), ver |-> Slice(s, j + 1, i), panic |-> FALSE]
                 ELSE [key |-> <<>>, ver |-> <<>>, panic |-> TRUE]
        ELSE [key |-> s, ver |-> <<>>, panic |-> FALSE]

\* properties.add
add(list, key, value) == Append(list, [Key |-> key, Value |-> value])

\* addToken without its "slash = false": the scanner stays in value mode.
addTokenKeepsSlash(st) ==
    LET s0    == TrimSpace(st.buff)
        s     == IF st.isURL THEN TrimPrefix(s0, Lit.plus) ELSE s0
        emits == st.buff # <<>> /\ ~ignore(s0)
        cv    == checkVer(s)
        list2 == IF ~emits THEN st.list
                 ELSE IF st.val = <<>> THEN add(st.list, cv.key, cv.ver)
                 ELSE add(st.list, s, TrimSpace(st.val))
    IN  [st EXCEPT !.list = list2, !.buff = <<>>, !.val = <<>>, !.isURL = FALSE,
                   !.panic = @ \/ (emits /\ st.val = <<>> /\ cv.panic)]

\* The scanner's state: the two buffers, the token list and the four flags.
\* addToken flushes the buffers into at most one token and resets them.
addToken(st) ==
    LET s0    == TrimSpace(st.buff)
        s     == IF st.isURL THEN TrimPrefix(s0, Lit.plus) ELSE s0
        emits == st.buff # <<>> /\ ~ignore(s0)
        cv    == checkVer(s)
        list2 == IF ~emits THEN st.list
                 ELSE IF st.val = <<>> THEN add(st.list, cv.key, cv.ver)
                 ELSE add(st.list, s, TrimSpace(st.val))
    IN  [st EXCEPT !.list = list2, !.buff = <<>>, !.val = <<>>,
                   !.slash = FALSE, !.isURL = FALSE,
                   !.panic = @ \/ (emits /\ st.val = <<>> /\ cv.panic)]

\* the lookahead without its guard
HasNextAlways(userAgent, i) == TRUE

\* i != len(userAgent)-1: there is a byte after position i
HasNext(userAgent, i) == i # Len(userAgent) - 1

\* One iteration of the scanning loop, on the byte c = userAgent[i]; the cases
\* are tried in the order of the switch.  The two ';' cases of the switch have
\* the same body.  The lookahead userAgent[i+1] is read only after HasNext, and
\* reading it past the end is a panic.
ScanByte(st, userAgent, i) ==
    LET c          == userAgent[i + 1]
        peekPanics == HasNext(userAgent, i) /\ ~IndexOK(userAgent, i + 1)
        next       == IF IndexOK(userAgent, i + 1) THEN userAgent[i + 2] ELSE ""
    IN  IF c = ")" THEN [addToken(st) EXCEPT !.parOpen = FALSE]
        ELSE IF (st.parOpen \/ st.braOpen) /\ c = ";" THEN addToken(st)
        ELSE IF c = ";" THEN addToken(st)
        ELSE IF c = "(" THEN [addToken(st) EXCEPT !.parOpen = TRUE]
        ELSE IF c = "[" THEN [addToken(st) EXCEPT !.braOpen = TRUE]
        ELSE IF c = "]" THEN [addToken(st) EXCEPT !.braOpen = FALSE]
        ELSE IF c = ":" THEN
            IF HasSuffix(st.buff, Lit.http) \/ HasSuffix(st.buff, Lit.https)
            THEN [st EXCEPT !.buff = Append(@, c)]
            ELSE IF peekPanics THEN [st EXCEPT !.panic = TRUE]
            ELSE IF HasNext(userAgent, i) /\ next # " "
            THEN [st EXCEPT !.buff = Append(@, " ")]
            ELSE st
        ELSE IF st.slash /\ c = " " THEN addToken(st)
        ELSE IF st.slash THEN [st EXCEPT !.val = Append(@, c)]
        ELSE IF c = "/" /\ ~st.isURL THEN
            IF peekPanics THEN [st EXCEPT !.panic = TRUE]
            ELSE IF HasNext(userAgent, i) /\ next = "/"
                    /\ (HasSuffix(st.buff, Lit.httpColon) \/ HasSuffix(st.buff, Lit.httpsColon))
            THEN [st EXCEPT !.buff = Append(@, c), !.isURL = TRUE]
            ELSE IF ignore(st.buff) THEN [st EXCEPT !.buff = <<>>]
            ELSE [st EXCEPT !.slash = TRUE]
        ELSE [st EXCEPT !.buff = Append(@, c)]

(***************************************************************************)
(* The token list: the methods of type properties.                         *)
(***************************************************************************)
KeyPositions(list, key) == {k \in 1..Len(list) : list[k].Key = key}

get(list, key) ==
    LET K == KeyPositions(list, key)
    IN  IF K = {} THEN <<>> ELSE list[SetMin(K)].Value

\* the 0-based position of the first token with the key, or -1, and its value
getIndexValue(list, key) ==
    LET K == KeyPositions(list, key)
    IN  IF K = {} THEN [index |-> -1, value |-> <<>>]
        ELSE [index |-> SetMin(K) - 1, value |-> list[SetMin(K)].Value]

exists(list, key) == KeyPositions(list, key) # {}

existsAny(list, keys) == \E key \in keys : exists(list, key)

startsWith(list, value) == \E k \in 1..Len(list) : HasPrefix(list[k].Key, value)

\* The body of the loops of findMacOSVersion and findInstagramVersion: the
\* version found in the token's value, else the one found in its key.
VersionOf(token) ==
    IF findVersion(token.Value) # <<>> THEN findVersion(token.Value)
    ELSE findVersion(token.Key)

\* the version of the first token that holds one, among those whose key contains "OS"
findMacOSVersion(list) ==
    LET K == {k \in 1..Len(list) :
                 Contains(list[k].Key, Lit.OS) /\ VersionOf(list[k]) # <<>>}
    IN  IF K = {} THEN <<>> ELSE VersionOf(list[SetMin(K)])

\* the same among the tokens whose key starts with "Instagram"
findInstagramVersion(list) ==
    LET K == {k \in 1..Len(list) :
                 HasPrefix(list[k].Key, Lit.Instagram) /\ VersionOf(list[k]) # <<>>}
    IN  IF K = {} THEN <<>> ELSE VersionOf(list[SetMin(K)])

\* findBestMatch: the first key that is none of the listed ones and does not
\* start with a digit; the first pass takes only a key with a value, the
\* second pass (run unless withVerOnly) takes any.
NotAName ==
    {Chrome, Firefox, Safari, Lit.Version, Lit.Mobile, Lit.MobileSafari, Lit.Mozilla,
     Lit.AppleWebKit, Lit.WindowsNT, Lit.WindowsPhoneOS, Android, Lit.Macintosh, Linux,
     Lit.GSA, Lit.CrOS, Lit.Tablet}
StartsWithDigit(key) == IF Len(key) # 0 THEN key[1] \in Digits ELSE FALSE
findBestMatch(list, withVerOnly) ==
    LET C  == {k \in 1..Len(list) :
                  list[k].Key \notin NotAName /\ ~StartsWithDigit(list[k].Key)}
        C0 == {k \in C : list[k].Value # <<>>}
    IN  IF C0 # {} THEN list[SetMin(C0)].Key
        ELSE IF ~withVerOnly /\ C # {} THEN list[SetMin(C)].Key
        ELSE <<>>

\* findAndroidDevice looks at the token after position startIndex (its loop
\* runs once): a language tag or a known non-device key gives no device; any
\* other key is the device, renamed to "Tablet" when it says tablet and removed
\* from the list otherwise.
NotADevice ==
    {Chrome, Firefox, Safari, OperaMini, Lit.Presto, Lit.Version, Lit.Mobile,
     Lit.MobileSafari, Lit.Mozilla, Lit.AppleWebKit, Lit.WindowsNT, Lit.WindowsPhoneOS,
     Android, Lit.Macintosh, Linux, Lit.CrOS}
findAndroidDevice(list, startIndex) ==
    LET i    == startIndex
        none == [list |-> list, dev |-> <<>>, panic |-> FALSE]
    IN  IF ~(Len(list) > i + 1) THEN none
        ELSE IF ~IndexOK(list, i + 1) THEN [none EXCEPT !.panic = TRUE]
        ELSE LET dev == list[i + 2].Key
             IN  IF Len(dev) = 2 \/ (Len(dev) = 5 /\ dev[3] = "-") THEN none
                 ELSE IF dev \in NotADevice THEN none
                 ELSE [list  |-> IF Contains(ToLower(dev), Lit.tablet)
                                 THEN [list EXCEPT ![i + 2].Key = Lit.Tablet]
                                 ELSE Slice(list, 0, i + 1) \o Slice(list, i + 2, Len(list)),
                       dev   |-> TrimSpace(TrimSuffix(dev, Lit.Build)),
                       panic |-> FALSE]

(***************************************************************************)
(* The classification: the body of Parser.Parse after the scan.            *)
(***************************************************************************)
\* UserAgent{String: userAgent}; the numeric versions VersionNo and
\* OSVersionNo are filled by parseVersion from Version and OSVersion and read
\* by nothing in Parse.
NewUserAgent(userAgent) ==
    [String |-> userAgent, URL |-> <<>>, Name |-> <<>>, Version |-> <<>>,
     OS |-> <<>>, OSVersion |-> <<>>, Device |-> <<>>,
     Mobile |-> FALSE, Tablet |-> FALSE, Desktop |-> FALSE, Bot |-> FALSE]

IsAndroid(ua) == ua.OS = Android
IsIOS(ua) == ua.OS = IOS

IsURLKey(key) == HasPrefix(key, Lit.httpScheme) \/ HasPrefix(key, Lit.httpsScheme)

\* "check is there URL": the first token whose key is a URL gives ua.URL and
\* is removed from the list.
FindURL(ua, list) ==
    LET K == {k \in 1..Len(list) : IsURLKey(list[k].Key)}
    IN  IF K = {} THEN [ua |-> ua, list |-> list, panic |-> FALSE]
        ELSE LET i == SetMin(K) - 1
             IN  IF SliceOK(list, 0, i) /\ SliceOK(list, i + 1, Len(list))
                 THEN [ua    |-> [ua EXCEPT !.URL = list[i + 1].Key],
                       list  |-> Slice(list, 0, i) \o Slice(list, i + 1, Len(list)),
                       panic |-> FALSE]
                 ELSE [ua |-> ua, list |-> list, panic |-> TRUE]

\* "OS lookup": the first rule whose token exists sets the OS fields.
OSLookup(ua, list) ==
    LET same(rule, u) == [ua |-> u, list |-> list, rule |-> rule, panic |-> FALSE]
    IN  IF exists(list, Android) THEN
            LET iv == getIndexValue(list, Android)
                d  == findAndroidDevice(list, iv.index)
            IN  [ua    |-> [ua EXCEPT !.OS = Android, !.OSVersion = iv.value,
                                      !.Tablet = Contains(ToLower(ua.String), Lit.tablet),
                                      !.Device = d.dev],
                 list  |-> d.list,
                 rule  |-> "Android",
                 panic |-> d.panic]
        ELSE IF exists(list, Lit.iPhone) THEN
            same("iPhone", [ua EXCEPT !.OS = IOS, !.OSVersion = findMacOSVersion(list),
                                      !.Device = Lit.iPhone, !.Mobile = TRUE])
        ELSE IF exists(list, Lit.iPad) THEN
            same("iPad", [ua EXCEPT !.OS = IOS, !.OSVersion = findMacOSVersion(list),
                                    !.Device = Lit.iPad, !.Tablet = TRUE])
        ELSE IF exists(list, Lit.WindowsNT) THEN
            same("Windows NT", [ua EXCEPT !.OS = Windows, !.OSVersion = get(list, Lit.WindowsNT),
                                          !.Desktop = TRUE])
        ELSE IF exists(list, Lit.WindowsPhoneOS) THEN
            same("Windows Phone OS", [ua EXCEPT !.OS = WindowsPhone,
                                                !.OSVersion = get(list, Lit.WindowsPhoneOS),
                                                !.Mobile = TRUE])
        ELSE IF exists(list, Lit.Macintosh) THEN
            same("Macintosh", [ua EXCEPT !.OS = MacOS, !.OSVersion = findMacOSVersion(list),
                                         !.Desktop = TRUE])
        ELSE IF exists(list, Linux) THEN
            same("Linux", [ua EXCEPT !.OS = Linux, !.OSVersion = get(list, Linux),
                                     !.Desktop = TRUE])
        ELSE IF exists(list, FreeBSD) THEN
            same("FreeBSD", [ua EXCEPT !.OS = FreeBSD, !.OSVersion = get(list, FreeBSD),
                                       !.Desktop = TRUE])
        ELSE IF exists(list, Lit.CrOS) THEN
            same("CrOS", [ua EXCEPT !.OS = ChromeOS, !.OSVersion = get(list, Lit.CrOS),
                                    !.Desktop = TRUE])
        ELSE IF exists(list, BlackBerry) THEN
            same("BlackBerry", [ua EXCEPT !.OS = BlackBerry, !.OSVersion = get(list, BlackBerry),
                                          !.Mobile = TRUE])
        ELSE same("none", ua)

\* tokens.existsAny("Mobile", "Mobile Safari")
MobileToken(list) == existsAny(list, {Lit.Mobile, Lit.MobileSafari})

\* The body shared by the rules that take the version from the matched key
\* and the mobile flag from the Mobile tokens.
Browser(ua, list, name, key) ==
    [ua EXCEPT !.Name = name, !.Version = get(list, key), !.Mobile = MobileToken(list)]

\* the Googlebot case clearing the OS as the Applebot case does
GooglebotRuleClearingOS(ua, list) ==
    [ua EXCEPT !.Name = Googlebot, !.Version = get(list, Googlebot), !.Bot = TRUE,
               !.Mobile = MobileToken(list), !.OS = <<>>]

GooglebotRule(ua, list) ==
    [ua EXCEPT !.Name = Googlebot, !.Version = get(list, Googlebot), !.Bot = TRUE,
               !.Mobile = MobileToken(list)]

ApplebotRule(ua, list) ==
    [ua EXCEPT !.Name = Applebot, !.Version = get(list, Applebot), !.Bot = TRUE,
               !.Mobile = MobileToken(list), !.OS = <<>>]

AdsBotRule(ua, list) ==
    [ua EXCEPT !.Name = GoogleAdsBot, !.Bot = TRUE, !.Mobile = IsAndroid(ua) \/ IsIOS(ua)]

YahooRule(ua, list) ==
    [ua EXCEPT !.Name = Lit.YahooAdMonitoring, !.Bot = TRUE,
               !.Mobile = IsAndroid(ua) \/ IsIOS(ua)]

FirefoxRule(ua, list) ==
    [ua EXCEPT !.Name = Firefox, !.Version = get(list, Firefox),
               !.Mobile = exists(list, Lit.Mobile), !.Tablet = exists(list, Lit.Tablet)]

SafariRule(ua, list) ==
    [ua EXCEPT !.Name = Safari,
               !.Version = IF get(list, Lit.Version) # <<>> THEN get(list, Lit.Version)
                           ELSE get(list, Safari),
               !.Mobile = MobileToken(list)]

\* the default case of the switch
DefaultRule(ua, list) ==
    IF ua.OS = Android /\ get(list, Lit.Version) # <<>>
    THEN [ua EXCEPT !.Name = Lit.AndroidBrowser, !.Version = get(list, Lit.Version),
                    !.Mobile = TRUE]
    ELSE LET name  == findBestMatch(list, FALSE)
             named == IF name # <<>>
                      THEN [ua EXCEPT !.Name = name, !.Version = get(list, name)]
                      ELSE [ua EXCEPT !.Name = ua.String]
         IN  [named EXCEPT !.Bot = Contains(ToLower(named.Name), Lit.bot),
                           !.Mobile = IF ~ua.Mobile THEN MobileToken(list) ELSE @]

\* The browser and bot rules: the first case of the switch that matches sets
\* the name fields.  rule names the case whose body ran; the case for Chrome
\* with Safari falls through to the case for Chrome when it finds no other name.
AgentLookup(ua, list) ==
    LET r(rule, u) == [ua |-> u, rule |-> rule]
        has(key)   == get(list, key) # <<>>
    IN  IF exists(list, Googlebot) THEN r("Googlebot", GooglebotRule(ua, list))
        ELSE IF existsAny(list, {Lit.GoogleProber, Lit.GoogleProducer}) THEN
            r("GoogleProber",
              [ua EXCEPT !.Name = IF findBestMatch(list, FALSE) # <<>>
                                  THEN findBestMatch(list, FALSE) ELSE @,
                         !.Bot = TRUE])
        ELSE IF exists(list, Applebot) THEN r("Applebot", ApplebotRule(ua, list))
        ELSE IF has(OperaMini) THEN
            r("Opera Mini", [ua EXCEPT !.Name = OperaMini, !.Version = get(list, OperaMini),
                                       !.Mobile = TRUE])
        ELSE IF has(Lit.OPR) THEN r("OPR", Browser(ua, list, Opera, Lit.OPR))
        ELSE IF has(Lit.OPT) THEN r("OPT", Browser(ua, list, OperaTouch, Lit.OPT))
        ELSE IF has(Lit.OPiOS) THEN r("OPiOS", Browser(ua, list, Opera, Lit.OPiOS))
        ELSE IF has(Lit.CriOS) THEN r("CriOS", Browser(ua, list, Chrome, Lit.CriOS))
        ELSE IF has(Lit.FxiOS) THEN r("FxiOS", Browser(ua, list, Firefox, Lit.FxiOS))
        ELSE IF has(Firefox) THEN r("Firefox", FirefoxRule(ua, list))
        ELSE IF has(Vivaldi) THEN
            r("Vivaldi", [ua EXCEPT !.Name = Vivaldi, !.Version = get(list, Vivaldi)])
        ELSE IF exists(list, Lit.MSIE) THEN
            r("MSIE", [ua EXCEPT !.Name = InternetExplorer, !.Version = get(list, Lit.MSIE)])
        ELSE IF has(Lit.EdgiOS) THEN r("EdgiOS", Browser(ua, list, Edge, Lit.EdgiOS))
        ELSE IF has(Edge) THEN r("Edge", Browser(ua, list, Edge, Edge))
        ELSE IF has(Lit.Edg) THEN r("Edg", Browser(ua, list, Edge, Lit.Edg))
        ELSE IF has(Lit.EdgA) THEN r("EdgA", Browser(ua, list, Edge, Lit.EdgA))
        ELSE IF has(Lit.bingbot) THEN r("bingbot", Browser(ua, list, Bingbot, Lit.bingbot))
        ELSE IF has(Lit.YandexBot) THEN
            r("YandexBot", Browser(ua, list, Lit.YandexBot, Lit.YandexBot))
        ELSE IF has(Lit.SamsungBrowser) THEN
            r("SamsungBrowser", Browser(ua, list, Lit.SamsungBrowserName, Lit.SamsungBrowser))
        ELSE IF has(Lit.HeadlessChromeKey) THEN
            r("HeadlessChrome",
              [Browser(ua, list, HeadlessChrome, Lit.HeadlessChromeKey) EXCEPT !.Bot = TRUE])
        ELSE IF existsAny(list, {Lit.AdsBotGoogleMobile, Lit.MediapartnersGoogle,
                                 Lit.AdsBotGoogle}) THEN
            r("AdsBot-Google", AdsBotRule(ua, list))
        ELSE IF exists(list, Lit.YahooAdMonitoring) THEN
            r("Yahoo Ad monitoring", YahooRule(ua, list))
        ELSE IF exists(list, Lit.XiaoMi) THEN
            LET miui == get(list, Lit.XiaoMi)
            IN  r("XiaoMi",
                  IF HasPrefix(miui, Lit.MiuiBrowser)
                  THEN [ua EXCEPT !.Name = Lit.MiuiBrowserName,
                                  !.Version = TrimPrefix(miui, Lit.MiuiBrowserSlash),
                                  !.Mobile = TRUE]
                  ELSE ua)
        ELSE IF exists(list, Lit.FBAN) THEN
            r("FBAN", [ua EXCEPT !.Name = FacebookApp, !.Version = get(list, Lit.FBAN)])
        ELSE IF exists(list, Lit.FB_IAB) THEN
            r("FB_IAB", [ua EXCEPT !.Name = FacebookApp, !.Version = get(list, Lit.FBAV)])
        ELSE IF startsWith(list, Lit.Instagram) THEN
            r("Instagram", [ua EXCEPT !.Name = InstagramApp,
                                      !.Version = findInstagramVersion(list)])
        ELSE IF exists(list, Lit.BytedanceWebview) THEN
            r("BytedanceWebview", [ua EXCEPT !.Name = TiktokApp,
                                             !.Version = get(list, Lit.app_version)])
        ELSE IF has(Lit.HuaweiBrowser) THEN
            r("HuaweiBrowser", Browser(ua, list, Lit.HuaweiBrowserName, Lit.HuaweiBrowser))
        ELSE IF exists(list, BlackBerry) THEN
            r("BlackBerry", [ua EXCEPT !.Name = BlackBerry, !.Version = get(list, Lit.Version)])
        ELSE IF exists(list, Lit.NetFront) THEN
            r("NetFront", [ua EXCEPT !.Name = Lit.NetFront, !.Version = get(list, Lit.NetFront),
                                     !.Mobile = TRUE])
        ELSE IF exists(list, Chrome) /\ exists(list, Safari)
                /\ findBestMatch(list, TRUE) # <<>> THEN
            LET name == findBestMatch(list, TRUE)
            IN  r("Chrome with Safari", [ua EXCEPT !.Name = name, !.Version = get(list, name)])
        ELSE IF exists(list, Chrome) THEN r("Chrome", Browser(ua, list, Chrome, Chrome))
        ELSE IF exists(list, Lit.BraveChrome) THEN
            r("Brave Chrome", Browser(ua, list, Chrome, Lit.BraveChrome))
        ELSE IF exists(list, Safari) THEN r("Safari", SafariRule(ua, list))
        ELSE r("default", DefaultRule(ua, list))

\* The corrections after the two lookups.
AndroidIsMobile(ua) == IF IsAndroid(ua) THEN [ua EXCEPT !.Mobile = TRUE] ELSE ua
\* the tablet correction left out, and the tablet correction clearing the wrong flag
TabletKeepsMobile(ua) == ua
TabletClearsDesktop(ua) == IF ua.Tablet THEN [ua EXCEPT !.Desktop = FALSE] ELSE ua
\* "if tablet, switch mobile to off"
TabletIsNotMobile(ua) == IF ua.Tablet THEN [ua EXCEPT !.Mobile = FALSE] ELSE ua
\* "if not already bot, check some popular bots and wether URL is set"
BotByURL(ua) == IF ~ua.Bot THEN [ua EXCEPT !.Bot = (ua.URL # <<>>)] ELSE ua
BotByName(ua) ==
    IF ~ua.Bot /\ ua.Name \in {Twitterbot, FacebookExternalHit}
    THEN [ua EXCEPT !.Bot = TRUE] ELSE ua
Corrections(ua) == BotByName(BotByURL(TabletIsNotMobile(AndroidIsMobile(ua))))

(***************************************************************************)
(* The user agents the model parses.                                       *)
(***************************************************************************)
\* The segments that name an operating system: "Android 9", "iPhone", "iPad", "Windows NT 6", "Windows Phone OS 7", "Macintosh", "Linux i686", "FreeBSD", "CrOS x86_64 14", "BlackBerry"
OSSegments ==
    { <<"A", "n", "d", "r", "o", "i", "d", " ", "9">>,
      <<"i", "P", "h", "o", "n", "e">>,
      <<"i", "P", "a", "d">>,
      <<"W", "i", "n", "d", "o", "w", "s", " ", "N", "T", " ", "6">>,
      <<"W", "i", "n", "d", "o", "w", "s", " ", "P", "h", "o", "n", "e", " ", "O", "S", " ", "7">>,
      <<"M", "a", "c", "i", "n", "t", "o", "s", "h">>,
      <<"L", "i", "n", "u", "x", " ", "i", "6", "8", "6">>,
      <<"F", "r", "e", "e", "B", "S", "D">>,
      <<"C", "r", "O", "S", " ", "x", "8", "6", "_", "6", "4", " ", "1", "4">>,
      <<"B", "l", "a", "c", "k", "B", "e", "r", "r", "y">> }

\* The segments that name a browser or a bot, one or more for each case of the switch
AgentSegments ==
    { <<"G", "o", "o", "g", "l", "e", "b", "o", "t", "/", "2">>,
      <<"G", "o", "o", "g", "l", "e", "P", "r", "o", "b", "e", "r">>,
      <<"A", "p", "p", "l", "e", "b", "o", "t", "/", "1">>,
      <<"O", "p", "e", "r", "a", " ", "M", "i", "n", "i", "/", "7">>,
      <<"O", "P", "R", "/", "7">>,
      <<"O", "P", "T", "/", "2">>,
      <<"O", "P", "i", "O", "S", "/", "8">>,
      <<"C", "r", "i", "O", "S", "/", "9">>,
      <<"F", "x", "i", "O", "S", "/", "3">>,
      <<"F", "i", "r", "e", "f", "o", "x", "/", "8">>,
      <<"V", "i", "v", "a", "l", "d", "i", "/", "3">>,
      <<"M", "S", "I", "E", " ", "9">>,
      <<"E", "d", "g", "i", "O", "S", "/", "4">>,
      <<"E", "d", "g", "e", "/", "1">>,
      <<"E", "d", "g", "/", "9">>,
      <<"E", "d", "g", "A", "/", "4">>,
      <<"b", "i", "n", "g", "b", "o", "t", "/", "2">>,
      <<"Y", "a", "n", "d", "e", "x", "B", "o", "t", "/", "3">>,
      <<"S", "a", "m", "s", "u", "n", "g", "B", "r", "o", "w", "s", "e", "r", "/", "4">>,
      <<"H", "e", "a", "d", "l", "e", "s", "s", "C", "h", "r", "o", "m", "e", "/", "9">>,
      <<"A", "d", "s", "B", "o", "t", "-", "G", "o", "o", "g", "l", "e">>,
      <<"Y", "a", "h", "o", "o", " ", "A", "d", " ", "m", "o", "n", "i", "t", "o", "r", "i", "n", "g">>,
      <<"X", "i", "a", "o", "M", "i", "/", "M", "i", "u", "i", "B", "r", "o", "w", "s", "e", "r", "/", "2">>,
      <<"F", "B", "A", "N", "/", "1">>,
      <<"F", "B", "_", "I", "A", "B", "/", "1">>,
      <<"I", "n", "s", "t", "a", "g", "r", "a", "m", " ", "9">>,
      <<"B", "y", "t", "e", "d", "a", "n", "c", "e", "W", "e", "b", "v", "i", "e", "w", "/", "1">>,
      <<"H", "u", "a", "w", "e", "i", "B", "r", "o", "w", "s", "e", "r", "/", "1">>,
      <<"N", "e", "t", "F", "r", "o", "n", "t", "/", "3">>,
      <<"C", "h", "r", "o", "m", "e", "/", "9", " ", "S", "a", "f", "a", "r", "i", "/", "5", " ", "Y", "a", "B", "r", "o", "w", "s", "e", "r", "/", "1">>,
      <<"C", "h", "r", "o", "m", "e", "/", "9", " ", "S", "a", "f", "a", "r", "i", "/", "5">>,
      <<"C", "h", "r", "o", "m", "e", "/", "9">>,
      <<"B", "r", "a", "v", "e", " ", "C", "h", "r", "o", "m", "e", "/", "9">>,
      <<"S", "a", "f", "a", "r", "i", "/", "6">>,
      <<"T", "w", "i", "t", "t", "e", "r", "b", "o", "t", "/", "1">>,
      <<"c", "u", "r", "l", "/", "7">> }

\* Further segments: "Mobile", "Mobile Safari/5", "Tablet", "+http://a", "Version/4", "SM-T Build/1"
ExtraSegments ==
    { <<"M", "o", "b", "i", "l", "e">>,
      <<"M", "o", "b", "i", "l", "e", " ", "S", "a", "f", "a", "r", "i", "/", "5">>,
      <<"T", "a", "b", "l", "e", "t">>,
      <<"+", "h", "t", "t", "p", ":", "/", "/", "a">>,
      <<"V", "e", "r", "s", "i", "o", "n", "/", "4">>,
      <<"S", "M", "-", "T", " ", "B", "u", "i", "l", "d", "/", "1">> }

\* The pieces the scanner's inputs are built from: "(", ")", ";", "[", "]", ":", "/", " ", "a", "1", "U", "+http:", "a/1", "Android", "CrOS armv7l", "CrOS armv7l 1"
Pieces ==
    { <<"(">>,
      <<")">>,
      <<";">>,
      <<"[">>,
      <<"]">>,
      <<":">>,
      <<"/">>,
      <<" ">>,
      <<"a">>,
      <<"1">>,
      <<"U">>,
      <<"+", "h", "t", "t", "p", ":">>,
      <<"a", "/", "1">>,
      <<"A", "n", "d", "r", "o", "i", "d">>,
      <<"C", "r", "O", "S", " ", "a", "r", "m", "v", "7", "l">>,
      <<"C", "r", "O", "S", " ", "a", "r", "m", "v", "7", "l", " ", "1">> }

\* The user agents of the threads that share the pools: "a", "b/1"
PoolInputs ==
    { <<"a">>,
      <<"b", "/", "1">> }

(***************************************************************************)
(* The state.  Each thread works through the user agents it has to parse,  *)
(* one call of Parser.Parse at a time; the two pools of the Parser and the *)
(* objects they hand out are shared by all threads.                        *)
(***************************************************************************)
VARIABLES
    todo,        \* per thread: the user agents it has still to parse
    pc,          \* per thread: the position of its call in Parse
    userAgent,   \* per thread: the argument of the call
    ua,          \* per thread: the result under construction
    tokens,      \* per thread: the token list it holds (0: none)
    buff,        \* per thread: the key buffer it holds (0: none)
    val,         \* per thread: the value buffer it holds (0: none)
    scan,        \* per thread: the loop index and the flags of Parser.parse
    rules,       \* per thread: the OS case and the browser/bot case that ran
    panic,       \* per thread: an index or slice of the call was out of range
    tokensPool,  \* Parser.tokens: the token lists in the pool
    bufPool,     \* Parser.buf: the buffers in the pool
    listOf,      \* the list of each token list object
    bytesOf,     \* the content of each buffer object
    returned     \* the results the calls have returned so far

vars == <<todo, pc, userAgent, ua, tokens, buff, val, scan, rules, panic,
          tokensPool, bufPool, listOf, bytesOf, returned>>

Threads == {"t1", "t2"}

\* A call holds one token list and two buffers, so these objects are all
\* that the threads can hold at one time.
TokenLists == 1..Cardinality(Threads)
Buffers == 1..(2 * Cardinality(Threads))

HeldLists == {tokens[t] : t \in Threads} \ {0}
HeldBuffers == ({buff[t] : t \in Threads} \cup {val[t] : t \in Threads}) \ {0}

NoScan == [i |-> 0, slash |-> FALSE, isURL |-> FALSE, parOpen |-> FALSE, braOpen |-> FALSE]
NoRules == [os |-> "", agent |-> ""]

\* The state after New(): both pools are empty and no call is running.
InitWith(work) ==
    /\ todo = work
    /\ pc = [t \in Threads |-> "idle"]
    /\ userAgent = [t \in Threads |-> <<>>]
    /\ ua = [t \in Threads |-> NewUserAgent(<<>>)]
    /\ tokens = [t \in Threads |-> 0]
    /\ buff = [t \in Threads |-> 0]
    /\ val = [t \in Threads |-> 0]
    /\ scan = [t \in Threads |-> NoScan]
    /\ rules = [t \in Threads |-> NoRules]
    /\ panic = [t \in Threads |-> FALSE]
    /\ tokensPool = {}
    /\ bufPool = {}
    /\ listOf = [o \in TokenLists |-> <<>>]
    /\ bytesOf = [o \in Buffers |-> <<>>]
    /\ returned = {}

\* sync.Pool.Get: an object of the pool, removed from it and handed out as it
\* was put, or, when Get finds none, the object New returns.  fresh is the
\* value of a new object; the objects of the model that no thread holds and
\* the pool does not hold stand for new ones.
PoolGet(pool, held, all) ==
    LET free == all \ (pool \cup held)
    IN  {[obj |-> o, new |-> FALSE] : o \in pool}
        \cup (IF free = {} THEN {} ELSE {[obj |-> SetMin(free), new |-> TRUE]})

\* sync.Pool.Put
PoolPut(pool, obj) == pool \cup {obj}

Goto(t, label) == pc' = [pc EXCEPT ![t] = label]

\* ua := UserAgent{String: userAgent}
Call(t) ==
    /\ pc[t] = "idle"
    /\ todo[t] # <<>>
    /\ userAgent' = [userAgent EXCEPT ![t] = Head(todo[t])]
    /\ ua' = [ua EXCEPT ![t] = NewUserAgent(Head(todo[t]))]
    /\ scan' = [scan EXCEPT ![t] = NoScan]
    /\ rules' = [rules EXCEPT ![t] = NoRules]
    /\ Goto(t, "getTokens")
    /\ UNCHANGED <<todo, tokens, buff, val, panic, tokensPool, bufPool, listOf, bytesOf, returned>>

\* tokens := p.tokens.Get().(*properties)
GetTokens(t) ==
    /\ pc[t] = "getTokens"
    /\ \E g \in PoolGet(tokensPool, HeldLists, TokenLists) :
          /\ tokens' = [tokens EXCEPT ![t] = g.obj]
          /\ tokensPool' = tokensPool \ {g.obj}
          /\ listOf' = IF g.new THEN [listOf EXCEPT ![g.obj] = <<>>] ELSE listOf
    /\ Goto(t, "truncate")
    /\ UNCHANGED <<todo, userAgent, ua, buff, val, scan, rules, panic, bufPool, bytesOf, returned>>

\* the token list taken from the pool used as it is
NotTruncated(list) == list
\* tokens.list = tokens.list[:0]
Truncated(list) == <<>>
Truncate(t) ==
    /\ pc[t] = "truncate"
    /\ listOf' = [listOf EXCEPT ![tokens[t]] = Truncated(@)]
    /\ Goto(t, "getBuff")
    /\ UNCHANGED <<todo, userAgent, ua, tokens, buff, val, scan, rules, panic,
                   tokensPool, bufPool, bytesOf, returned>>

\* buff := p.buf.Get().(*bytes.Buffer)
GetBuff(t) ==
    /\ pc[t] = "getBuff"
    /\ \E g \in PoolGet(bufPool, HeldBuffers, Buffers) :
          /\ buff' = [buff EXCEPT ![t] = g.obj]
          /\ bufPool' = bufPool \ {g.obj}
          /\ bytesOf' = IF g.new THEN [bytesOf EXCEPT ![g.obj] = <<>>] ELSE bytesOf
    /\ Goto(t, "resetBuff")
    /\ UNCHANGED <<todo, userAgent, ua, tokens, val, scan, rules, panic,
                   tokensPool, listOf, returned>>

\* bytes.Buffer.Reset
Reset(bytes) == <<>>

\* buff.Reset()
ResetBuff(t) ==
    /\ pc[t] = "resetBuff"
    /\ bytesOf' = [bytesOf EXCEPT ![buff[t]] = Reset(@)]
    /\ Goto(t, "getVal")
    /\ UNCHANGED <<todo, userAgent, ua, tokens, buff, val, scan, rules, panic,
                   tokensPool, bufPool, listOf, returned>>

\* val := p.buf.Get().(*bytes.Buffer)
GetVal(t) ==
    /\ pc[t] = "getVal"
    /\ \E g \in PoolGet(bufPool, HeldBuffers, Buffers) :
          /\ val' = [val EXCEPT ![t] = g.obj]
          /\ bufPool' = bufPool \ {g.obj}
          /\ bytesOf' = IF g.new THEN [bytesOf EXCEPT ![g.obj] = <<>>] ELSE bytesOf
    /\ Goto(t, "resetVal")
    /\ UNCHANGED <<todo, userAgent, ua, tokens, buff, scan, rules, panic,
                   tokensPool, listOf, returned>>

\* val.Reset(), and the flags of the scan start false
ResetVal(t) ==
    /\ pc[t] = "resetVal"
    /\ bytesOf' = [bytesOf EXCEPT ![val[t]] = Reset(@)]
    /\ scan' = [scan EXCEPT ![t] = NoScan]
    /\ Goto(t, "scan")
    /\ UNCHANGED <<todo, userAgent, ua, tokens, buff, val, rules, panic,
                   tokensPool, bufPool, listOf, returned>>

\* The scanner's state of thread t, read from the objects it holds.
Scanner(t) ==
    [buff |-> bytesOf[buff[t]], val |-> bytesOf[val[t]], list |-> listOf[tokens[t]],
     slash |-> scan[t].slash, isURL |-> scan[t].isURL,
     parOpen |-> scan[t].parOpen, braOpen |-> scan[t].braOpen, panic |-> FALSE]

\* The scanner's state st written back to the objects thread t holds.
Scanned(t, st, i) ==
    /\ bytesOf' = [[bytesOf EXCEPT ![buff[t]] = st.buff] EXCEPT ![val[t]] = st.val]
    /\ listOf' = [listOf EXCEPT ![tokens[t]] = st.list]
    /\ scan' = [scan EXCEPT ![t] = [i |-> i, slash |-> st.slash, isURL |-> st.isURL,
                                    parOpen |-> st.parOpen, braOpen |-> st.braOpen]]
    /\ panic' = [panic EXCEPT ![t] = st.panic]

\* One iteration of "for i := 0; i < len(userAgent); i++".
ScanStep(t) ==
    /\ pc[t] = "scan"
    /\ scan[t].i < Len(userAgent[t])
    /\ LET st == ScanByte(Scanner(t), userAgent[t], scan[t].i)
       IN  /\ Scanned(t, st, scan[t].i + 1)
           /\ Goto(t, IF st.panic THEN "panic" ELSE "scan")
    /\ UNCHANGED <<todo, userAgent, ua, tokens, buff, val, rules, tokensPool, bufPool, returned>>

\* The loop is over: the addToken() that ends Parser.parse.
ScanEnd(t) ==
    /\ pc[t] = "scan"
    /\ scan[t].i = Len(userAgent[t])
    /\ LET st == addToken(Scanner(t))
       IN  /\ Scanned(t, st, scan[t].i)
           /\ Goto(t, IF st.panic THEN "panic" ELSE "putVal")
    /\ UNCHANGED <<todo, userAgent, ua, tokens, buff, val, rules, tokensPool, bufPool, returned>>

\* defer p.buf.Put(val)
PutVal(t) ==
    /\ pc[t] = "putVal"
    /\ bufPool' = PoolPut(bufPool, val[t])
    /\ val' = [val EXCEPT ![t] = 0]
    /\ Goto(t, "putBuff")
    /\ UNCHANGED <<todo, userAgent, ua, tokens, buff, scan, rules, panic,
                   tokensPool, listOf, bytesOf, returned>>

\* defer p.buf.Put(buff)
PutBuff(t) ==
    /\ pc[t] = "putBuff"
    /\ bufPool' = PoolPut(bufPool, buff[t])
    /\ buff' = [buff EXCEPT ![t] = 0]
    /\ Goto(t, "url")
    /\ UNCHANGED <<todo, userAgent, ua, tokens, val, scan, rules, panic,
                   tokensPool, listOf, bytesOf, returned>>

\* "check is there URL"
URLStep(t) ==
    /\ pc[t] = "url"
    /\ LET r == FindURL(ua[t], listOf[tokens[t]])
       IN  /\ ua' = [ua EXCEPT ![t] = r.ua]
           /\ listOf' = [listOf EXCEPT ![tokens[t]] = r.list]
           /\ panic' = [panic EXCEPT ![t] = r.panic]
           /\ Goto(t, IF r.panic THEN "panic" ELSE "os")
    /\ UNCHANGED <<todo, userAgent, tokens, buff, val, scan, rules,
                   tokensPool, bufPool, bytesOf, returned>>

\* "OS lookup"
OSStep(t) ==
    /\ pc[t] = "os"
    /\ LET r == OSLookup(ua[t], listOf[tokens[t]])
       IN  /\ ua' = [ua EXCEPT ![t] = r.ua]
           /\ listOf' = [listOf EXCEPT ![tokens[t]] = r.list]
           /\ rules' = [rules EXCEPT ![t].os = r.rule]
           /\ panic' = [panic EXCEPT ![t] = r.panic]
           /\ Goto(t, IF r.panic THEN "panic" ELSE "agent")
    /\ UNCHANGED <<todo, userAgent, tokens, buff, val, scan,
                   tokensPool, bufPool, bytesOf, returned>>

\* the switch over the browser and bot tokens
AgentStep(t) ==
    /\ pc[t] = "agent"
    /\ LET r == AgentLookup(ua[t], listOf[tokens[t]])
       IN  /\ ua' = [ua EXCEPT ![t] = r.ua]
           /\ rules' = [rules EXCEPT ![t].agent = r.rule]
    /\ Goto(t, "fix")
    /\ UNCHANGED <<todo, userAgent, tokens, buff, val, scan, panic,
                   tokensPool, bufPool, listOf, bytesOf, returned>>

\* the corrections of the flags
FixStep(t) ==
    /\ pc[t] = "fix"
    /\ ua' = [ua EXCEPT ![t] = Corrections(@)]
    /\ Goto(t, "return")
    /\ UNCHANGED <<todo, userAgent, tokens, buff, val, scan, rules, panic,
                   tokensPool, bufPool, listOf, bytesOf, returned>>

\* return ua, with the deferred p.tokens.Put(tokens); the locals of the call are gone
Return(t) ==
    /\ pc[t] = "return"
    /\ tokensPool' = PoolPut(tokensPool, tokens[t])
    /\ tokens' = [tokens EXCEPT ![t] = 0]
    /\ returned' = returned \cup {ua[t]}
    /\ todo' = [todo EXCEPT ![t] = Tail(@)]
    /\ userAgent' = [userAgent EXCEPT ![t] = <<>>]
    /\ ua' = [ua EXCEPT ![t] = NewUserAgent(<<>>)]
    /\ scan' = [scan EXCEPT ![t] = NoScan]
    /\ rules' = [rules EXCEPT ![t] = NoRules]
    /\ Goto(t, "idle")
    /\ UNCHANGED <<buff, val, panic, bufPool, listOf, bytesOf>>

\* sync.Pool may drop an object it holds at any time.
DropTokens ==
    /\ \E o \in tokensPool :
          /\ tokensPool' = tokensPool \ {o}
          /\ listOf' = [listOf EXCEPT ![o] = <<>>]
    /\ UNCHANGED <<todo, pc, userAgent, ua, tokens, buff, val, scan, rules, panic,
                   bufPool, bytesOf, returned>>

DropBuffer ==
    /\ \E o \in bufPool :
          /\ bufPool' = bufPool \ {o}
          /\ bytesOf' = [bytesOf EXCEPT ![o] = <<>>]
    /\ UNCHANGED <<todo, pc, userAgent, ua, tokens, buff, val, scan, rules, panic,
                   tokensPool, listOf, returned>>

Next ==
    \/ \E t \in Threads :
          \/ Call(t)
          \/ GetTokens(t)
          \/ Truncate(t)
          \/ GetBuff(t)
          \/ ResetBuff(t)
          \/ GetVal(t)
          \/ ResetVal(t)
          \/ ScanStep(t)
          \/ ScanEnd(t)
          \/ PutVal(t)
          \/ PutBuff(t)
          \/ URLStep(t)
          \/ OSStep(t)
          \/ AgentStep(t)
          \/ FixStep(t)
          \/ Return(t)
    \/ DropTokens
    \/ DropBuffer

MaxExtras == 1
MaxPieces == 3
MaxCalls == 3

RECURSIVE Concat(_)
Concat(ss) == IF ss = <<>> THEN <<>> ELSE Head(ss) \o Concat(Tail(ss))

\* the segments joined by "; ", as the parts inside the parentheses of a user agent are
RECURSIVE Join(_)
Join(ss) ==
    IF ss = <<>> THEN <<>>
    ELSE IF Len(ss) = 1 THEN ss[1]
    ELSE ss[1] \o <<";", " ">> \o Join(Tail(ss))

SeqsUpTo(S, n) == UNION {[1..k -> S] : k \in 0..n}

\* A user agent in the usual order: at most one operating system segment, up
\* to MaxExtras further segments, at most one browser or bot segment.
UserAgents ==
    {Join(os \o extras \o agent) :
        os \in {<<>>} \cup {<<s>> : s \in OSSegments},
        extras \in SeqsUpTo(ExtraSegments, MaxExtras),
        agent \in {<<>>} \cup {<<s>> : s \in AgentSegments}}

\* Any string of up to MaxPieces pieces.
PieceStrings == {Concat(ps) : ps \in SeqsUpTo(Pieces, MaxPieces)}

\* One thread parses one user agent.
Init == \E s \in UserAgents : InitWith([t \in Threads |-> IF t = "t1" THEN <<s>> ELSE <<>>])
Spec == Init /\ [][Next]_vars

InitTok == \E s \in PieceStrings : InitWith([t \in Threads |-> IF t = "t1" THEN <<s>> ELSE <<>>])
SpecTok == InitTok /\ [][Next]_vars

\* The threads parse up to MaxCalls user agents in all, each thread its own
\* one after the other.
InitPool ==
    \E work \in [Threads -> SeqsUpTo(PoolInputs, MaxCalls)] :
        /\ Len(work["t1"]) + Len(work["t2"]) <= MaxCalls
        /\ InitWith(work)
SpecPool == InitPool /\ [][Next]_vars

(***************************************************************************)
(* The properties.                                                         *)
(***************************************************************************)
Done(t) == pc[t] = "return"

\* C1: no result returned by Parse has Tablet and Mobile both true, whichever
\* OS rule and browser/bot rule ran.
C1_TabletExcludesMobile == \A r \in returned : ~(r.Tablet /\ r.Mobile)

\* an Android user agent that names a tablet: Mobile was forced true and then cleared
C1_Witness == \E r \in returned : r.OS = Android /\ r.Tablet /\ ~r.Mobile

FlagCount(r) ==
    (IF r.Mobile THEN 1 ELSE 0) + (IF r.Tablet THEN 1 ELSE 0) + (IF r.Desktop THEN 1 ELSE 0)

\* C7 as stated: at most one of Mobile, Tablet and Desktop is true in every result.
C7_AtMostOneFormFactor == \A r \in returned : FlagCount(r) <= 1

DesktopRules == {"Windows NT", "Macintosh", "Linux", "FreeBSD", "CrOS"}

\* C7 as amended: in every result Mobile and Tablet are not both true, and
\* Desktop, which no correction touches, is true exactly when a desktop OS rule
\* ran (Windows NT, Macintosh, Linux, FreeBSD, CrOS), also next to Mobile or Tablet.
C7_OnlyTabletCorrected ==
    \A t \in Threads :
        Done(t) => /\ FlagCount(ua[t]) <= 2
                   /\ ua[t].Tablet => ~ua[t].Mobile
                   /\ ua[t].Desktop <=> rules[t].os \in DesktopRules

\* a desktop OS with a browser rule that sets Mobile: both flags are returned
C7_Witness == \E t \in Threads : Done(t) /\ ua[t].Desktop /\ ua[t].Mobile

\* C4: the browser/bot step and the corrections leave the OS name of the OS
\* step as it is, except that the Applebot case sets it to the empty string.
C4_OSKept ==
    [][\A t \in Threads :
          /\ (pc[t] = "agent" /\ pc'[t] = "fix") =>
                 ua'[t].OS = (IF rules'[t].agent = "Applebot" THEN <<>> ELSE ua[t].OS)
          /\ (pc[t] = "fix" /\ pc'[t] = "return") => ua'[t].OS = ua[t].OS]_vars

\* the Applebot case ran after an OS rule had named an OS
C4_Witness ==
    \E t \in Threads : Done(t) /\ rules[t].agent = "Applebot" /\ rules[t].os = "iPhone"
                       /\ ua[t].OS = <<>>

BotRules == {"Googlebot", "Applebot", "AdsBot-Google", "bingbot", "YandexBot",
             "Yahoo Ad monitoring"}

\* C5: when the case that ran is one of the known bots, the result has Bot true.
C5_KnownBotsAreBots ==
    \A t \in Threads : (Done(t) /\ rules[t].agent \in BotRules) => ua[t].Bot

BrowserRules == {"Chrome", "CriOS", "OPiOS", "FxiOS", "EdgiOS", "Edge", "Edg", "EdgA",
                 "OPR", "OPT", "Firefox", "Safari"}
MobileOSRules == {"iPhone", "Windows Phone OS", "BlackBerry"}

\* C6: after a browser rule, Mobile is true exactly when a "Mobile" or "Mobile
\* Safari" token exists or the OS rule had set Mobile.
C6_MobileKept ==
    \A t \in Threads :
        (pc[t] = "fix" /\ rules[t].agent \in BrowserRules) =>
            (ua[t].Mobile <=> (MobileToken(listOf[tokens[t]]) \/ rules[t].os \in MobileOSRules))

\* C8: no token of a token list has an empty key.
C8_NoEmptyKey ==
    \A o \in TokenLists : \A k \in 1..Len(listOf[o]) : listOf[o][k].Key # <<>>

ArchKeys == {Lit.CrOSx86, Lit.CrOSaarch64, Lit.CrOSarmv7l}

\* C9: when the user agent starts with the key "CrOS <arch> 14", <arch> one of
\* x86_64, aarch64 and armv7l, and the ChromeOS rule runs, the OS version of
\* the result is "14".
C9_CrOSVersion ==
    \A t \in Threads : \A arch \in ArchKeys :
        (Done(t) /\ HasPrefix(userAgent[t], arch \o <<" ", "1", "4">>) /\ rules[t].os = "CrOS")
            => ua[t].OSVersion = <<"1", "4">>

\* A step of the scanning loop of thread t taken in value mode.
SlashStep(t) == pc[t] = "scan" /\ scan[t].slash /\ scan'[t].i = scan[t].i + 1
\* the byte is appended to the value buffer and nothing else changes
Appended(t, c) ==
    /\ bytesOf'[val[t]] = Append(bytesOf[val[t]], c)
    /\ bytesOf'[buff[t]] = bytesOf[buff[t]]
    /\ listOf' = listOf
    /\ scan'[t].slash
\* the buffers are flushed: both are empty and value mode is over
Flushed(t) ==
    /\ bytesOf'[val[t]] = <<>>
    /\ bytesOf'[buff[t]] = <<>>
    /\ ~scan'[t].slash
    /\ Len(listOf'[tokens[t]]) <= Len(listOf[tokens[t]]) + 1

\* C10 as stated: in value mode every byte but the space is appended to the
\* value buffer, and only a space flushes.
C10_AllBytesLiteral ==
    [][\A t \in Threads :
          SlashStep(t) =>
              LET c == userAgent[t][scan[t].i + 1]
              IN  IF c = " " THEN Flushed(t) ELSE Appended(t, c)]_vars

\* C10 as amended: in value mode a space and the delimiters ) ; ( [ ] flush
\* the token, a ':' leaves the value buffer as it is (the scanner stays in
\* value mode), and every other byte is appended to the value buffer.
C10_DelimitersFlush ==
    [][\A t \in Threads :
          SlashStep(t) =>
              LET c == userAgent[t][scan[t].i + 1]
              IN  IF c \in {" ", ")", ";", "(", "[", "]"} THEN Flushed(t)
                  ELSE IF c = ":"
                  THEN /\ bytesOf'[val[t]] = bytesOf[val[t]]
                       /\ listOf' = listOf
                       /\ scan'[t].slash
                  ELSE Appended(t, c)]_vars

\* a delimiter has just flushed a token whose value came from value mode
C10_Witness ==
    \E t \in Threads :
        /\ pc[t] = "scan"
        /\ scan[t].i > 0
        /\ userAgent[t][scan[t].i] = ")"
        /\ HasPrefix(userAgent[t], <<"a", "/", "1", ")">>)
        /\ scan[t].i = 4
        /\ listOf[tokens[t]] = <<[Key |-> <<"a">>, Value |-> <<"1">>]>>

\* C3: no call panics: every index and slice of the scan, of checkVer, of the
\* URL removal and of findAndroidDevice is in range, and the loop index
\* stays within the user agent.
C3_NoPanic ==
    \A t \in Threads :
        /\ ~panic[t]
        /\ pc[t] # "panic"
        /\ scan[t].i <= Len(userAgent[t])

\* a call has returned for a user agent that ends in ':' after a "CrOS <arch>" key
C3_Witness ==
    \E r \in returned :
        /\ HasPrefix(r.String, Lit.CrOSarmv7l)
        /\ HasSuffix(r.String, <<":">>)
        /\ r.OS = ChromeOS

\* C2: no pool object is held by two calls or held while in the pool, a call
\* starts its scan with an empty token list and empty buffers, and the results
\* returned for one user agent are all the same.
C2_CallsIndependent ==
    /\ \A t \in Threads : \A u \in Threads \ {t} :
          /\ tokens[t] # 0 => tokens[t] # tokens[u]
          /\ buff[t] # 0 => buff[t] \notin {buff[u], val[u]}
          /\ val[t] # 0 => val[t] \notin {buff[u], val[u]}
    /\ \A t \in Threads : buff[t] # 0 => buff[t] # val[t]
    /\ HeldLists \cap tokensPool = {}
    /\ HeldBuffers \cap bufPool = {}
    /\ \A t \in Threads :
          (pc[t] = "scan" /\ scan[t].i = 0) =>
              /\ listOf[tokens[t]] = <<>>
              /\ bytesOf[buff[t]] = <<>>
              /\ bytesOf[val[t]] = <<>>
    /\ \A r1 \in returned, r2 \in returned : r1.String = r2.String => r1 = r2

\* a call has taken a token list that an earlier call left non-empty, while
\* the other thread is in its scan
C2_Witness ==
    \E t \in Threads, u \in Threads :
        /\ t # u
        /\ pc[t] = "truncate"
        /\ listOf[tokens[t]] # <<>>
        /\ pc[u] = "scan"
        /\ returned # {}
====
